---- MODULE Spec2Model ----
(***************************************************************************)
(* The WebSocket handlers of the league timer (disconnect, joinLeague,     *)
(* timerUpdate) over the connections table and the API                     *)
(* Gateway push transport.  One action is one run of handler code between  *)
(* two awaits; the store and the transport answer nondeterministically.    *)
(***************************************************************************)
EXTENDS Integers, FiniteSets, Sequences, TLC

\* ------------------------------------------------------------------ bounds
\* Number of handler invocations that are started in one behaviour.
MaxInv == 2

\* ------------------------------------------------------------- value sets
ConnectionIds == {"c1", "c2", "c3"}
LeagueIds == {"L1", "L2"}
SessionIds == {"s1", "s2"}
\* A field that is absent from the parsed body (JavaScript undefined).
Undefined == "undefined"
\* The one timer payload that is broadcast; the handler never inspects it.
TimerStates == {"ts"}

VARIABLES
    table,          \* items of CONNECTIONS_TABLE
    pc,             \* per connection: where its current invocation stands
    handler,        \* per connection: which handler its invocation runs
    body,           \* per connection: the parsed request body
    connections,    \* per connection: result.Items of its Query
    sendPromises,   \* per connection, per target: state of the map() promise
    response,       \* per connection, per target: what the transport answered
    posts,          \* per connection, per target: PostToConnection calls issued
    commands,       \* per connection: the store commands it has sent
    statusCode,     \* per connection: statusCode returned (0: none yet)
    error,          \* per connection: what its catch block caught ("none": nothing)
    inbox,          \* per connection: messages the transport delivered to it
    invoked,        \* invocations started so far
    joinedAgain     \* history: per connection, the targets that were put again
                    \* after its DeleteCommand had removed them

vars == <<table, pc, handler, body, connections, sendPromises, response, posts,
          commands, statusCode, error, inbox, invoked, joinedAgain>>

\* ------------------------------------------------------- request bodies
\* JSON.parse(event.body || '{}') either yields an object or throws.
MalformedBody ==
    [parses |-> FALSE, leagueId |-> Undefined, sessionId |-> Undefined,
     isCreator |-> Undefined, timerState |-> Undefined]

EmptyBody ==
    [parses |-> TRUE, leagueId |-> Undefined, sessionId |-> Undefined,
     isCreator |-> Undefined, timerState |-> Undefined]

JoinBodies ==
    [parses : {TRUE}, leagueId : LeagueIds \cup {Undefined},
     sessionId : SessionIds \cup {Undefined},
     isCreator : {"true", Undefined},
     timerState : {Undefined}] \cup {MalformedBody}

TimerBodies ==
    [parses : {TRUE}, leagueId : LeagueIds \cup {Undefined},
     sessionId : {Undefined}, isCreator : {Undefined},
     timerState : TimerStates \cup {Undefined}] \cup {MalformedBody}

\* !v of JavaScript on the values a body field takes here.
Not(v) == v = Undefined

\* isCreator || false
OrFalse(v) == IF v = "true" THEN TRUE ELSE FALSE

\* ----------------------------------------------------------- the store
KeyOf(item) == <<item.leagueId, item.connectionId>>

\* A put that adds the item and keeps the one it should replace.
PutCommandAppend(t, item) == t \cup {item}

\* A put that allows one creator per league: it stores isCreator = false when
\* another connection of the league already has isCreator = true.
PutCommandOneCreator(t, item) ==
    {i \in t : KeyOf(i) # KeyOf(item)}
        \cup {[item EXCEPT !.isCreator =
                    /\ item.isCreator
                    /\ ~\E i \in t : /\ i.leagueId = item.leagueId
                                     /\ i.connectionId # item.connectionId
                                     /\ i.isCreator]}

\* A put keyed by the league alone: it replaces every item of the league.
PutCommandByLeague(t, item) ==
    {i \in t : i.leagueId # item.leagueId} \cup {item}

\* A put that keeps the isCreator of the item it replaces.
PutCommandKeepCreator(t, item) ==
    {i \in t : KeyOf(i) # KeyOf(item)}
        \cup {[item EXCEPT !.isCreator =
                    IF \E i \in t : KeyOf(i) = KeyOf(item)
                      THEN (CHOOSE i \in t : KeyOf(i) = KeyOf(item)).isCreator
                      ELSE item.isCreator]}

\* PutCommand: the item replaces whatever item has its key.
PutCommand(t, item) == {i \in t : KeyOf(i) # KeyOf(item)} \cup {item}

\* A delete that removes nothing.
DeleteCommandNothing(t, leagueId, connectionId) == t

\* DeleteCommand: removes the item of that key, if any.
DeleteCommand(t, leagueId, connectionId) ==
    {i \in t : KeyOf(i) # <<leagueId, connectionId>>}

\* A scan: every item of the table, whatever its league.
QueryCommandScan(t, leagueId) == t

\* QueryCommand with KeyConditionExpression leagueId = :leagueId.
QueryCommand(t, leagueId) == {i \in t : i.leagueId = leagueId}

\* A command handed to docClient.send: its kind, its key, and for a Put its Item.
Command(kind, leagueId, connectionId, items) ==
    [kind |-> kind, leagueId |-> leagueId, connectionId |-> connectionId,
     Item |-> items]

\* ------------------------------------------------------------- initial
NoPromises == [t \in ConnectionIds |-> "none"]
NoResponses == [t \in ConnectionIds |-> "none"]
NoPosts == [t \in ConnectionIds |-> 0]

\* The table outlives every invocation.  It starts with what earlier
\* joinLeague invocations have left in it: c1 as a creator of league L1 and,
\* or not, c2 as a second creator and c3 as a member.
SeedCreator ==
    [leagueId |-> "L1", connectionId |-> "c1", sessionId |-> "s1",
     isCreator |-> TRUE]

SeedOthers ==
    {[leagueId |-> "L1", connectionId |-> "c2", sessionId |-> "s1",
      isCreator |-> TRUE],
     [leagueId |-> "L1", connectionId |-> "c3", sessionId |-> "s1",
      isCreator |-> FALSE]}

Init ==
    /\ table \in {{SeedCreator} \cup others : others \in SUBSET SeedOthers}
    /\ pc = [c \in ConnectionIds |-> "idle"]
    /\ handler = [c \in ConnectionIds |-> "none"]
    /\ body = [c \in ConnectionIds |-> EmptyBody]
    /\ connections = [c \in ConnectionIds |-> {}]
    /\ sendPromises = [c \in ConnectionIds |-> NoPromises]
    /\ response = [c \in ConnectionIds |-> NoResponses]
    /\ posts = [c \in ConnectionIds |-> NoPosts]
    /\ commands = [c \in ConnectionIds |-> {}]
    /\ statusCode = [c \in ConnectionIds |-> 0]
    /\ error = [c \in ConnectionIds |-> "none"]
    /\ inbox = [c \in ConnectionIds |-> {}]
    /\ invoked = 0
    /\ joinedAgain = [c \in ConnectionIds |-> {}]

\* An invocation of connection c starts: the event arrives at a handler.
Begin(c, h, b) ==
    /\ pc[c] = "idle"
    /\ invoked < MaxInv
    /\ invoked' = invoked + 1
    /\ handler' = [handler EXCEPT ![c] = h]
    /\ body' = [body EXCEPT ![c] = b]

\* The handler returns statusCode s from its try block.
Return(c, s) ==
    /\ pc' = [pc EXCEPT ![c] = "done"]
    /\ statusCode' = [statusCode EXCEPT ![c] = s]
    /\ UNCHANGED error

\* The handler's catch block catches e, logs it and returns 500.
Catch(c, e) ==
    /\ pc' = [pc EXCEPT ![c] = "done"]
    /\ statusCode' = [statusCode EXCEPT ![c] = 500]
    /\ error' = [error EXCEPT ![c] = e]

\* The handler runs on to its next await at p.
Await(c, p) ==
    /\ pc' = [pc EXCEPT ![c] = p]
    /\ UNCHANGED <<statusCode, error>>

\* ---------------------------------------------------------- disconnect
\* A disconnect that scans the table and deletes every item of the connection.
TableAfterScanAndDelete(t, c) == {i \in t : i.connectionId # c}

\* The try block of disconnect holds comments only: it sends no command and
\* the table stays as it is.
TableAfterDisconnect(t, c) == t

\* The handler logs the connectionId and returns 200.
disconnect(c) ==
    /\ Begin(c, "disconnect", EmptyBody)
    /\ Return(c, 200)
    /\ table' = TableAfterDisconnect(table, c)
    /\ UNCHANGED <<connections, sendPromises, response, posts,
                   commands, inbox, joinedAgain>>

\* ---------------------------------------------------------- validation
\* A check that rejects only when both fields are missing.
TimerUpdateInvalidBoth(b) == Not(b.leagueId) /\ Not(b.timerState)

\* !leagueId || !timerState
TimerUpdateInvalid(b) == Not(b.leagueId) \/ Not(b.timerState)

\* !leagueId || !sessionId
JoinLeagueInvalid(b) == Not(b.leagueId) \/ Not(b.sessionId)

\* ---------------------------------------------------------- joinLeague
\* The Item of the PutCommand.  Its connectedAt timestamp is left out: no
\* handler ever reads it back.
JoinItem(c, b) ==
    [leagueId |-> b.leagueId, connectionId |-> c, sessionId |-> b.sessionId,
     isCreator |-> OrFalse(b.isCreator)]

\* Up to the await of the PutCommand.
joinLeague(c, b) ==
    /\ Begin(c, "joinLeague", b)
    /\ IF ~b.parses
         THEN /\ Catch(c, "SyntaxError")
              /\ UNCHANGED commands
         ELSE IF JoinLeagueInvalid(b)
           THEN /\ Return(c, 400)
                /\ UNCHANGED commands
           ELSE /\ Await(c, "put")
                /\ commands' = [commands EXCEPT
                       ![c] = @ \cup {Command("Put", b.leagueId, c,
                                              {JoinItem(c, b)})}]
    /\ UNCHANGED <<table, connections, sendPromises, response, posts, inbox,
                   joinedAgain>>

\* The DeleteCommand that d sent for the stale target t has removed its item.
Removed(d, t) == response[d][t] = "gone" /\ sendPromises[d][t] = "fulfilled"

\* The item the pending PutCommand of c carries.
PendingItem(c) ==
    CHOOSE item \in UNION {cmd.Item : cmd \in commands[c]} : TRUE

\* The PutCommand settles: written, or the store throws.
joinLeaguePut(c, ok) ==
    /\ pc[c] = "put"
    /\ IF ok
         THEN /\ table' = PutCommand(table, PendingItem(c))
              /\ Return(c, 200)
              /\ joinedAgain' =
                    [d \in ConnectionIds |->
                        IF Removed(d, c) /\ body[d].leagueId = body[c].leagueId
                          THEN joinedAgain[d] \cup {c}
                          ELSE joinedAgain[d]]
         ELSE /\ Catch(c, "PutError")
              /\ UNCHANGED <<table, joinedAgain>>
    /\ UNCHANGED <<handler, body, connections, sendPromises, response, posts,
                   commands, inbox, invoked>>

\* --------------------------------------------------------- timerUpdate
\* A guard that only looks for the sender's item and not at its flag.
SenderIsPresent(conns, c) ==
    \E i \in conns : i.connectionId = c

\* A check that answers from the privilege the connection started with
\* instead of the listing it is given.
SenderWasCreator(conns, c) ==
    \E i \in {SeedCreator} \cup SeedOthers : i.connectionId = c /\ i.isCreator

\* senderConnection?.isCreator, with senderConnection = connections.find(...)
SenderIsCreator(conns, c) ==
    \E i \in conns : i.connectionId = c /\ i.isCreator

\* A map callback that skips every creator's item instead of the sender's.
PostsOfMapSkipCreators(conns, c) ==
    [t \in ConnectionIds |->
        Cardinality({i \in conns : i.connectionId = t /\ ~i.isCreator})]

\* A map callback that does not skip the sender.
PostsOfMapToAll(conns, c) ==
    [t \in ConnectionIds |-> Cardinality({i \in conns : i.connectionId = t})]

\* A fan-out over every known connection instead of the listed items.
PostsOfMapEveryone(conns, c) ==
    [t \in ConnectionIds |-> IF t = c THEN 0 ELSE 1]

\* The async callback of connections.map up to its first await: it returns
\* at once for the sender and issues one PostToConnection for any other item.
PostsOfMap(conns, c) ==
    [t \in ConnectionIds |->
        IF t = c THEN 0
        ELSE Cardinality({i \in conns : i.connectionId = t})]

\* A loop that starts the send to one target only and leaves the others
\* waiting for it.
PromisesOfMapOneByOne(conns, c) ==
    LET targets == {i.connectionId : i \in conns} \ {c}
        first == CHOOSE t \in targets : TRUE
    IN  [t \in ConnectionIds |->
            IF t = c /\ (\E i \in conns : i.connectionId = c) THEN "fulfilled"
            ELSE IF targets # {} /\ t = first THEN "sending"
            ELSE "none"]

\* The promise of each item's callback once map has returned.
PromisesOfMap(conns, c) ==
    [t \in ConnectionIds |->
        IF \E i \in conns : i.connectionId = t
          THEN (IF PostsOfMap(conns, c)[t] > 0 THEN "sending" ELSE "fulfilled")
          ELSE "none"]

\* A barrier that resolves as soon as one promise is fulfilled.
PromiseAllFirst(p) ==
    IF \E t \in ConnectionIds : p[t] = "rejected" THEN "rejected"
    ELSE IF \E t \in ConnectionIds : p[t] = "fulfilled" THEN "fulfilled"
    ELSE "pending"

\* Promise.all over the promises of map: rejected as soon as one is rejected,
\* fulfilled when all are fulfilled, pending otherwise.
PromiseAll(p) ==
    IF \E t \in ConnectionIds : p[t] = "rejected" THEN "rejected"
    ELSE IF \A t \in ConnectionIds : p[t] \in {"none", "fulfilled"}
      THEN "fulfilled"
      ELSE "pending"

\* The code after await Promise.all(sendPromises): 200 when it resolves, the
\* outer catch (500) when it rejects; nothing once the handler has returned.
AfterAwait(c, p) ==
    IF pc[c] = "await" /\ PromiseAll(p) = "fulfilled" THEN Return(c, 200)
    ELSE IF pc[c] = "await" /\ PromiseAll(p) = "rejected"
      THEN Catch(c, "DeleteError")
      ELSE UNCHANGED <<pc, statusCode, error>>

\* Up to the await of the QueryCommand.
timerUpdate(c, b) ==
    /\ Begin(c, "timerUpdate", b)
    /\ IF ~b.parses
         THEN /\ Catch(c, "SyntaxError")
              /\ UNCHANGED commands
         ELSE IF TimerUpdateInvalid(b)
           THEN /\ Return(c, 400)
                /\ UNCHANGED commands
           ELSE /\ Await(c, "query")
                /\ commands' = [commands EXCEPT
                       ![c] = @ \cup {Command("Query", b.leagueId, Undefined, {})}]
    /\ UNCHANGED <<table, connections, sendPromises, response, posts, inbox,
                   joinedAgain>>

\* The QueryCommand settles; on success the handler runs on to Promise.all.
timerUpdateQuery(c, ok) ==
    /\ pc[c] = "query"
    /\ IF ~ok
         THEN /\ Catch(c, "QueryError")
              /\ UNCHANGED <<connections, sendPromises, posts>>
         ELSE LET conns == QueryCommand(table, body[c].leagueId) IN
              /\ connections' = [connections EXCEPT ![c] = conns]
              /\ IF ~SenderIsCreator(conns, c)
                   THEN /\ Return(c, 403)
                        /\ UNCHANGED <<sendPromises, posts>>
                   ELSE LET p == PromisesOfMap(conns, c) IN
                        /\ posts' = [posts EXCEPT ![c] = PostsOfMap(conns, c)]
                        /\ sendPromises' = [sendPromises EXCEPT ![c] = p]
                        /\ IF PromiseAll(p) = "fulfilled"
                             THEN Return(c, 200)
                             ELSE Await(c, "await")
    /\ UNCHANGED <<table, handler, body, response, commands, inbox, invoked,
                   joinedAgain>>

\* The message handed to PostToConnection.
Message(c) == [type |-> "timerUpdate", timerState |-> body[c].timerState]

\* A callback that deletes the item of its target on any error of the send.
PromiseAfterSendAnyError(r) == IF r # "ok" THEN "deleting" ELSE "fulfilled"

\* What the callback does with the transport's answer r to its send to t.
PromiseAfterSend(r) == IF r = "gone" THEN "deleting" ELSE "fulfilled"

\* The PostToConnection of c to t settles with the transport's answer r:
\* delivered, 410 (gone) or any other error (transient).
timerUpdateSend(c, t, r) ==
    /\ sendPromises[c][t] = "sending"
    /\ response' = [response EXCEPT ![c][t] = r]
    /\ inbox' = IF r = "ok" THEN [inbox EXCEPT ![t] = @ \cup {Message(c)}]
                ELSE inbox
    /\ commands' = IF r = "gone"
                     THEN [commands EXCEPT ![c] = @ \cup
                             {Command("Delete", body[c].leagueId, t, {})}]
                     ELSE commands
    /\ LET p == [sendPromises[c] EXCEPT ![t] = PromiseAfterSend(r)] IN
         /\ sendPromises' = [sendPromises EXCEPT ![c] = p]
         /\ AfterAwait(c, p)
    /\ UNCHANGED <<table, handler, body, connections, posts, invoked,
                   joinedAgain>>

\* A callback that catches the error of its DeleteCommand.
PromiseAfterDeleteCaught(ok) == "fulfilled"

\* What the callback's promise becomes when its DeleteCommand settles: the
\* await sits in the catch block, so a throwing store rejects the promise.
PromiseAfterDelete(ok) == IF ok THEN "fulfilled" ELSE "rejected"

\* A conditional delete: the store fails it when the key has no item.
timerUpdateDeleteIfExists(c, t, ok) ==
    /\ sendPromises[c][t] = "deleting"
    /\ LET exists == \E i \in table : KeyOf(i) = <<body[c].leagueId, t>>
           p == [sendPromises[c] EXCEPT
                    ![t] = PromiseAfterDelete(ok /\ exists)] IN
         /\ table' = IF ok /\ exists
                       THEN DeleteCommand(table, body[c].leagueId, t)
                       ELSE table
         /\ sendPromises' = [sendPromises EXCEPT ![c] = p]
         /\ AfterAwait(c, p)
    /\ UNCHANGED <<handler, body, connections, response, posts, commands,
                   inbox, invoked, joinedAgain>>

\* The DeleteCommand of the stale connection t settles.
timerUpdateDelete(c, t, ok) ==
    /\ sendPromises[c][t] = "deleting"
    /\ table' = IF ok THEN DeleteCommand(table, body[c].leagueId, t) ELSE table
    /\ LET p == [sendPromises[c] EXCEPT ![t] = PromiseAfterDelete(ok)] IN
         /\ sendPromises' = [sendPromises EXCEPT ![c] = p]
         /\ AfterAwait(c, p)
    /\ UNCHANGED <<handler, body, connections, response, posts, commands,
                   inbox, invoked, joinedAgain>>

\* ------------------------------------------------------------ runtime
\* The returned invocation of c is over and c may invoke a handler again.
Complete(c) ==
    /\ pc[c] = "done"
    /\ \A t \in ConnectionIds : sendPromises[c][t] \notin {"sending", "deleting"}
    /\ pc' = [pc EXCEPT ![c] = "idle"]
    /\ handler' = [handler EXCEPT ![c] = "none"]
    /\ body' = [body EXCEPT ![c] = EmptyBody]
    /\ connections' = [connections EXCEPT ![c] = {}]
    /\ sendPromises' = [sendPromises EXCEPT ![c] = NoPromises]
    /\ response' = [response EXCEPT ![c] = NoResponses]
    /\ posts' = [posts EXCEPT ![c] = NoPosts]
    /\ commands' = [commands EXCEPT ![c] = {}]
    /\ statusCode' = [statusCode EXCEPT ![c] = 0]
    /\ error' = [error EXCEPT ![c] = "none"]
    /\ joinedAgain' = [joinedAgain EXCEPT ![c] = {}]
    /\ UNCHANGED <<table, inbox, invoked>>

Next ==
    \/ \E c \in ConnectionIds : disconnect(c)
    \/ \E c \in ConnectionIds, b \in JoinBodies : joinLeague(c, b)
    \/ \E c \in ConnectionIds, ok \in BOOLEAN : joinLeaguePut(c, ok)
    \/ \E c \in ConnectionIds, b \in TimerBodies : timerUpdate(c, b)
    \/ \E c \in ConnectionIds, ok \in BOOLEAN : timerUpdateQuery(c, ok)
    \/ \E c \in ConnectionIds, t \in ConnectionIds,
          r \in {"ok", "gone", "transient"} : timerUpdateSend(c, t, r)
    \/ \E c \in ConnectionIds, t \in ConnectionIds, ok \in BOOLEAN :
          timerUpdateDelete(c, t, ok)
    \/ \E c \in ConnectionIds : Complete(c)

Spec == Init /\ [][Next]_vars

\* ------------------------------------------------------------- claims
\* The timerUpdate invocation of c carries a leagueId and a timerState.
ValidTimerUpdate(c) ==
    /\ handler[c] = "timerUpdate"
    /\ body[c].parses
    /\ body[c].leagueId # Undefined
    /\ body[c].timerState # Undefined

\* The QueryCommand of c's timerUpdate has returned its items.
Listed(c) ==
    /\ ValidTimerUpdate(c)
    /\ pc[c] \in {"await", "done"}
    /\ error[c] # "QueryError"

\* The connections that have an item in a listing.
Members(conns) == {i.connectionId : i \in conns}

\* The step in which the QueryCommand of c returns its items.
ListingStep(c) ==
    /\ pc[c] = "query"
    /\ pc'[c] # "query"
    /\ error'[c] = "none"

\* c has no item in the league it names, or its item has isCreator = false.
NotCreatorIn(t, c) ==
    \/ \A i \in QueryCommand(t, body[c].leagueId) : i.connectionId # c
    \/ \E i \in QueryCommand(t, body[c].leagueId) :
          i.connectionId = c /\ i.isCreator = FALSE

\* C1: when the listing of a timerUpdate shows that its sender has no item in
\* the league or an item with isCreator = false, the invocation returns 403 in
\* that same step, has issued no PostToConnection and no Put or Delete, leaves
\* no promise behind, and the table and every inbox are as they were.
C1_NonCreatorForbidden ==
    [][\A c \in ConnectionIds :
          ListingStep(c) /\ NotCreatorIn(table, c) =>
              /\ pc'[c] = "done"
              /\ statusCode'[c] = 403
              /\ posts'[c] = NoPosts
              /\ sendPromises'[c] = NoPromises
              /\ \A cmd \in commands'[c] : cmd.kind = "Query"
              /\ table' = table
              /\ inbox' = inbox]_vars

\* A timerUpdate of a sender without creator privilege has returned 403.
C1_Witness ==
    \E c \in ConnectionIds :
        /\ Listed(c)
        /\ statusCode[c] = 403
        /\ \E i \in connections[c] : i.connectionId = c /\ ~i.isCreator
        /\ Cardinality(connections[c]) >= 2

\* C2: a timerUpdate of a creator whose listing holds N items has issued
\* exactly one PostToConnection to each of the N-1 connections other than the
\* sender that have an item in the listing, and none to anything else.
C2_FanOutToOthers ==
    \A c \in ConnectionIds :
        Listed(c) /\ SenderIsCreator(connections[c], c) =>
            /\ \A t \in Members(connections[c]) \ {c} : posts[c][t] = 1
            /\ \A t \in ConnectionIds \ (Members(connections[c]) \ {c}) :
                  posts[c][t] = 0
            /\ Cardinality({t \in ConnectionIds : posts[c][t] > 0})
                  = Cardinality(connections[c]) - 1

\* A creator has broadcast into a league of three.
C2_Witness ==
    \E c \in ConnectionIds :
        /\ Listed(c)
        /\ SenderIsCreator(connections[c], c)
        /\ Cardinality(connections[c]) = 3
        /\ pc[c] = "done"
        /\ statusCode[c] = 200

\* No item of the table has the key (l, t).
Absent(l, t) == \A i \in table : KeyOf(i) # <<l, t>>

\* C3 as stated: once a timerUpdate in which the send to t reported 410 has
\* returned, t has no item in that league, unless t has joined again.
C3_GoneAbsentAfterReturn ==
    \A c \in ConnectionIds, t \in ConnectionIds :
        handler[c] = "timerUpdate" /\ pc[c] = "done" /\ response[c][t] = "gone"
            => Absent(body[c].leagueId, t) \/ t \in joinedAgain[c]

\* C3 as amended: once the send to t has reported 410 and the DeleteCommand
\* for t has succeeded, t has no item in that league until t joins again, and
\* a timerUpdate that lists the league in that time neither lists t nor posts
\* to it.
C3_RemovedStaysOut ==
    /\ [](\A c \in ConnectionIds, t \in ConnectionIds :
            Removed(c, t) =>
                Absent(body[c].leagueId, t) \/ t \in joinedAgain[c])
    /\ [][\A d \in ConnectionIds : ListingStep(d) =>
            \A c \in ConnectionIds, t \in ConnectionIds :
                /\ Removed(c, t)
                /\ t \notin joinedAgain[c]
                /\ body[c].leagueId = body[d].leagueId
                => /\ t \notin Members(connections'[d])
                   /\ posts'[d][t] = 0]_vars

\* A timerUpdate has pruned t and returned 200, and another creator's
\* timerUpdate in the same league has listed the league without t.
C3_Witness ==
    \E c \in ConnectionIds, d \in ConnectionIds, t \in ConnectionIds :
        /\ c # d
        /\ Removed(c, t)
        /\ pc[c] = "done"
        /\ statusCode[c] = 200
        /\ Absent(body[c].leagueId, t)
        /\ Listed(d)
        /\ SenderIsCreator(connections[d], d)
        /\ body[d].leagueId = body[c].leagueId
        /\ c \in Members(connections[d])
        /\ t \notin Members(connections[d])

\* No two items of the table have the same key.
KeysUnique(t) == \A i \in t, j \in t : KeyOf(i) = KeyOf(j) => i = j

\* The step in which the PutCommand of c's joinLeague is written.
PutStep(c) ==
    /\ pc[c] = "put"
    /\ pc'[c] = "done"
    /\ statusCode'[c] = 200

\* C4: the table never holds two items of one (leagueId, connectionId); a
\* successful join leaves an item of its key with the sessionId and the
\* isCreator of that join, and, when an item of that key was there before,
\* leaves the number of items of the league unchanged.
C4_JoinIsUpsert ==
    /\ []KeysUnique(table)
    /\ [][\A c \in ConnectionIds : PutStep(c) =>
            LET l == body[c].leagueId IN
            /\ \E i \in table' :
                  /\ KeyOf(i) = <<l, c>>
                  /\ i.sessionId = body[c].sessionId
                  /\ i.isCreator = (body[c].isCreator = "true")
            /\ ~Absent(l, c) =>
                  Cardinality(QueryCommand(table', l))
                    = Cardinality(QueryCommand(table, l))]_vars

\* c1, whose item was in the table from the start, has joined its league
\* again under another session and without the creator flag.
C4_Witness ==
    /\ invoked = 1
    /\ handler["c1"] = "joinLeague"
    /\ pc["c1"] = "done"
    /\ statusCode["c1"] = 200
    /\ body["c1"].leagueId = "L1"
    /\ [leagueId |-> "L1", connectionId |-> "c1", sessionId |-> "s2",
        isCreator |-> FALSE] \in table

\* C5 as stated: a creator's timerUpdate whose listing succeeded returns 200
\* whatever its sends report.
C5_AuthorizedReturnsOk ==
    \A c \in ConnectionIds :
        Listed(c) /\ SenderIsCreator(connections[c], c) /\ pc[c] = "done"
            => statusCode[c] = 200

\* C6 as stated: a timerUpdate in which the DeleteCommand for a stale target
\* has failed returns 200.
C6_FailedPruneReturnsOk ==
    \A c \in ConnectionIds, t \in ConnectionIds :
        /\ handler[c] = "timerUpdate"
        /\ pc[c] = "done"
        /\ response[c][t] = "gone"
        /\ sendPromises[c][t] = "rejected"
        => statusCode[c] = 200

\* C7 as stated: a timerUpdate that has returned has no send and no prune
\* still pending.
C7_ReturnedMeansSettled ==
    \A c \in ConnectionIds :
        pc[c] = "done" =>
            \A t \in ConnectionIds :
                sendPromises[c][t] \notin {"sending", "deleting"}

\* C8: once a creator's timerUpdate has mapped its listing, every listed
\* target other than the sender has its send started; a started send can be
\* answered whatever has become of the other sends and of the handler; and a
\* send the transport answers with success has delivered the message and
\* fulfilled its promise.
C8_SendsIndependent ==
    \A c \in ConnectionIds :
        Listed(c) /\ SenderIsCreator(connections[c], c) =>
            \A t \in Members(connections[c]) \ {c} :
                /\ sendPromises[c][t] # "none"
                /\ posts[c][t] >= 1
                /\ sendPromises[c][t] = "sending" =>
                      ENABLED timerUpdateSend(c, t, "ok")
                /\ response[c][t] = "ok" =>
                      /\ sendPromises[c][t] = "fulfilled"
                      /\ Message(c) \in inbox[t]

\* One target's send has succeeded while the prune of another has failed.
C8_Witness ==
    \E c \in ConnectionIds, t \in ConnectionIds, u \in ConnectionIds :
        /\ Listed(c)
        /\ response[c][t] = "ok"
        /\ Message(c) \in inbox[t]
        /\ response[c][u] = "gone"
        /\ sendPromises[c][u] = "rejected"

\* C9: a creator's timerUpdate whose listing holds the creator's own item and
\* nothing else has returned 200 with no PostToConnection issued, no answer
\* received and no DeleteCommand sent.
C9_AloneSucceeds ==
    \A c \in ConnectionIds :
        /\ Listed(c)
        /\ connections[c] # {}
        /\ \A i \in connections[c] : i.connectionId = c /\ i.isCreator
        => /\ pc[c] = "done"
           /\ statusCode[c] = 200
           /\ posts[c] = NoPosts
           /\ response[c] = NoResponses
           /\ \A cmd \in commands[c] : cmd.kind = "Query"

\* A creator alone in its league has broadcast.
C9_Witness ==
    \E c \in ConnectionIds :
        /\ Listed(c)
        /\ Cardinality(connections[c]) = 1
        /\ SenderIsCreator(connections[c], c)
        /\ statusCode[c] = 200

\* The body of c's invocation parses and lacks a field its handler requires.
MissingField(c) ==
    /\ pc[c] # "idle"
    /\ body[c].parses
    /\ \/ /\ handler[c] = "timerUpdate"
          /\ body[c].leagueId = Undefined \/ body[c].timerState = Undefined
       \/ /\ handler[c] = "joinLeague"
          /\ body[c].leagueId = Undefined \/ body[c].sessionId = Undefined

\* C10: a joinLeague or timerUpdate whose body lacks a required field has
\* returned 400 at once, having sent no store command (no Query, no Put, no
\* Delete) and issued no PostToConnection.
C10_MissingFieldRejected ==
    \A c \in ConnectionIds :
        MissingField(c) =>
            /\ pc[c] = "done"
            /\ statusCode[c] = 400
            /\ commands[c] = {}
            /\ posts[c] = NoPosts
            /\ sendPromises[c] = NoPromises

\* A timerUpdate without timerState and a joinLeague without sessionId have
\* both been rejected.
C10_Witness ==
    \E c \in ConnectionIds, d \in ConnectionIds :
        /\ handler[c] = "timerUpdate"
        /\ body[c].leagueId # Undefined
        /\ body[c].timerState = Undefined
        /\ statusCode[c] = 400
        /\ handler[d] = "joinLeague"
        /\ body[d].leagueId # Undefined
        /\ body[d].sessionId = Undefined
        /\ statusCode[d] = 400

\* The body a handler returns with each statusCode.
ResultBody(h, s) ==
    IF h = "disconnect" THEN "Disconnected"
    ELSE IF h = "joinLeague" THEN
        (IF s = 400 THEN "leagueId and sessionId are required"
         ELSE IF s = 200 THEN "Joined league"
         ELSE "Failed to join league")
    ELSE
        (IF s = 400 THEN "leagueId and timerState are required"
         ELSE IF s = 403 THEN "Only the creator can update the timer"
         ELSE IF s = 200 THEN "Timer update broadcast"
         ELSE "Failed to broadcast timer update")

\* The APIGatewayProxyResult the invocation of c has returned.
Result(c) ==
    [statusCode |-> statusCode[c], body |-> ResultBody(handler[c], statusCode[c])]

\* The number the handler logs before it returns 200: connections.length - 1.
LoggedClients(c) == Cardinality(connections[c]) - 1

\* The targets of c's broadcast whose send the transport answered with r.
Answered(c, r) == {t \in ConnectionIds : response[c][t] = r}

C13_CreatorFlagFixed ==
    [][\A i \in table, j \in table' :
          KeyOf(i) = KeyOf(j) => j.isCreator = i.isCreator]_vars

\* C13 as amended: the isCreator of an item changes only when the connection
\* of that item joins the same league again, and every successful join leaves
\* the item with the isCreator of that join, whatever the item it replaces
\* held; no broadcast, prune or disconnect changes it.
C13_CreatorFlagSetByLatestJoin ==
    [][/\ \A i \in table, j \in table' :
            KeyOf(i) = KeyOf(j) /\ j.isCreator # i.isCreator =>
                /\ PutStep(j.connectionId)
                /\ body[j.connectionId].leagueId = j.leagueId
       /\ \A c \in ConnectionIds : PutStep(c) =>
            \A j \in table' :
                KeyOf(j) = <<body[c].leagueId, c>> =>
                    j.isCreator = OrFalse(body[c].isCreator)]_vars

\* c1, a creator of L1 from the start, has joined L1 again with the same
\* sessionId and without isCreator, and its item now has isCreator = false.
C13_Witness ==
    /\ handler["c1"] = "joinLeague"
    /\ pc["c1"] = "done"
    /\ statusCode["c1"] = 200
    /\ body["c1"].isCreator = Undefined
    /\ SeedCreator \notin table
    /\ [SeedCreator EXCEPT !.isCreator = FALSE] \in table

\* A step of the timerUpdate invocation of c.
TimerUpdateStep(c) ==
    /\ handler'[c] = "timerUpdate"
    /\ \/ pc'[c] # pc[c]
       \/ sendPromises'[c] # sendPromises[c]
       \/ response'[c] # response[c]

\* C14: a step of a timerUpdate adds no item to the table and changes none;
\* an item it removes belongs to the league of the broadcast and to a
\* connection other than the sender whose send reported 410 in that same
\* invocation. The items of the sender and of the targets whose send was
\* delivered or failed otherwise stay as they were.
C14_PruneOnlyOnGone ==
    [][\A c \in ConnectionIds : TimerUpdateStep(c) =>
          /\ table' \subseteq table
          /\ \A i \in table \ table' :
                /\ i.leagueId = body[c].leagueId
                /\ i.connectionId # c
                /\ response[c][i.connectionId] = "gone"
                /\ sendPromises[c][i.connectionId] = "deleting"]_vars

\* The timerUpdate of c1 has returned 200: the send to c2 reported 410 and
\* its item is gone; the send to c3 failed otherwise and the items of c3 and
\* of c1 are as they were.
C14_Witness ==
    /\ handler["c1"] = "timerUpdate"
    /\ pc["c1"] = "done"
    /\ statusCode["c1"] = 200
    /\ Removed("c1", "c2")
    /\ response["c1"]["c3"] = "transient"
    /\ table = {SeedCreator} \cup {i \in SeedOthers : i.connectionId = "c3"}

\* C15: a PostToConnection of a timerUpdate exists only once its QueryCommand
\* has returned, and only to a connection other than the sender that has an
\* item in the returned listing; the listing is the set of items the league
\* had at the step the query returned, and neither it nor the posts change
\* afterwards, so a connection that joins the league later is not posted to
\* by that invocation.
C15_TargetsAreListed ==
    /\ [](\A c \in ConnectionIds, t \in ConnectionIds :
            \/ posts[c][t] > 0
            \/ response[c][t] # "none"
            \/ sendPromises[c][t] \in {"sending", "deleting"}
            => /\ Listed(c)
               /\ t # c
               /\ t \in Members(connections[c]))
    /\ [][\A c \in ConnectionIds :
            /\ ListingStep(c) =>
                  connections'[c] =
                      {i \in table : i.leagueId = body[c].leagueId}
            /\ ~ListingStep(c) /\ handler'[c] = handler[c] =>
                  /\ connections'[c] = connections[c]
                  /\ posts'[c] = posts[c]]_vars

\* The timerUpdate of c1 listed L1 without c3 and is still awaiting its send
\* to c2; c3 has since joined L1 and has its item in the table, and c1 has
\* issued no post to c3.
C15_Witness ==
    /\ handler["c1"] = "timerUpdate"
    /\ pc["c1"] = "await"
    /\ posts["c1"]["c2"] = 1
    /\ "c3" \notin Members(connections["c1"])
    /\ handler["c3"] = "joinLeague"
    /\ pc["c3"] = "done"
    /\ statusCode["c3"] = 200
    /\ ~Absent("L1", "c3")
    /\ posts["c1"]["c3"] = 0
    /\ sendPromises["c1"]["c3"] = "none"

\* c has an item with isCreator = true in league l of the table t.
CreatorIn(t, l, c) == \E i \in t : KeyOf(i) = <<l, c>> /\ i.isCreator

Others(t, k) == {i \in t : KeyOf(i) # k}

\* The joinLeague of c has returned 200.
Joined(c) ==
    /\ handler[c] = "joinLeague"
    /\ pc[c] = "done"
    /\ statusCode[c] = 200

\* The PutCommand of t's joinLeague and the DeleteCommand of c's timerUpdate
\* for t's item in the same league are both in flight.
PutRacesDelete(c, t) ==
    /\ pc[t] = "put"
    /\ sendPromises[c][t] = "deleting"
    /\ body[c].leagueId = body[t].leagueId

\* C17: a put of a join and a delete of a prune touch the item of their own
\* key only, so when two connections are the only ones invoked and both of
\* their joins have returned 200, both items are in the table; when a put
\* and a delete of one key are in flight together either may be applied
\* first, and once the join has returned 200 and the prune has succeeded
\* the key is absent or holds the item of that join.
C17_WritesOfOneKeyOnly ==
    /\ [](\A c \in ConnectionIds, d \in ConnectionIds :
            c # d /\ Joined(c) /\ Joined(d) /\ invoked = 2 =>
                {JoinItem(c, body[c]), JoinItem(d, body[d])} \subseteq table)
    /\ [](\A c \in ConnectionIds, t \in ConnectionIds :
            /\ PutRacesDelete(c, t) =>
                  /\ ENABLED joinLeaguePut(t, TRUE)
                  /\ ENABLED timerUpdateDelete(c, t, TRUE)
            /\ (Removed(c, t) /\ Joined(t)
                    /\ body[c].leagueId = body[t].leagueId) =>
                  \/ Absent(body[t].leagueId, t)
                  \/ /\ JoinItem(t, body[t]) \in table
                     /\ KeysUnique(table))
    /\ [][\A c \in ConnectionIds :
            /\ PutStep(c) =>
                  /\ JoinItem(c, body[c]) \in table'
                  /\ Others(table', <<body[c].leagueId, c>>)
                        = Others(table, <<body[c].leagueId, c>>)
            /\ \A t \in ConnectionIds :
                  (sendPromises[c][t] = "deleting"
                      /\ sendPromises'[c][t] = "fulfilled") =>
                  /\ Absent(body[c].leagueId, t)'
                  /\ Others(table', <<body[c].leagueId, t>>)
                        = Others(table, <<body[c].leagueId, t>>)]_vars

\* The timerUpdate of c1 listed c3, got 410 for it and deleted its item; the
\* joinLeague of c3 as a creator of L1 has returned 200 and its put was the
\* later write: the table holds the item of that join and the items of c1
\* and c2 are as they were.
C17_Witness ==
    /\ Removed("c1", "c3")
    /\ "c3" \in Members(connections["c1"])
    /\ Joined("c3")
    /\ body["c3"].leagueId = "L1"
    /\ body["c3"].isCreator = "true"
    /\ table = {SeedCreator, JoinItem("c3", body["c3"])}
                  \cup {i \in SeedOthers : i.connectionId = "c2"}

\* The errors a throwing store leaves in the handler's catch block.
StoreErrors == {"QueryError", "PutError", "DeleteError"}

Creators(t, l) == {i.connectionId : i \in {j \in t : j.leagueId = l /\ j.isCreator}}

AllSettled(c) ==
    /\ handler[c] = "timerUpdate"
    /\ pc[c] = "done"
    /\ \A t \in ConnectionIds :
          sendPromises[c][t] \notin {"sending", "deleting", "rejected"}

\* C20: a DeleteCommand for a key that has no item succeeds when the store
\* accepts it, fulfils its callback's promise and leaves the table as it was; when two timerUpdates of one league both got
\* 410 for t and both deleted its item, t has no item in the league unless
\* it joined again after both, and each of the two that has settled without
\* a failed delete has returned 200.
C20_DeleteIsIdempotent ==
    /\ [](\A c \in ConnectionIds, d \in ConnectionIds, t \in ConnectionIds :
            /\ (sendPromises[c][t] = "deleting"
                    /\ Absent(body[c].leagueId, t)) =>
                  ENABLED (/\ timerUpdateDelete(c, t, TRUE)
                           /\ sendPromises'[c][t] = "fulfilled"
                           /\ table' = table)
            /\ (c # d /\ Removed(c, t) /\ Removed(d, t)
                    /\ body[c].leagueId = body[d].leagueId) =>
                  /\ \/ Absent(body[c].leagueId, t)
                     \/ t \in joinedAgain[c] \cap joinedAgain[d]
                  /\ AllSettled(c) => statusCode[c] = 200
                  /\ AllSettled(d) => statusCode[d] = 200)
    /\ [][\A c \in ConnectionIds, t \in ConnectionIds :
            (sendPromises[c][t] = "deleting"
                /\ sendPromises'[c][t] = "fulfilled"
                /\ Absent(body[c].leagueId, t)) =>
            /\ table' = table
            /\ error'[c] = error[c]]_vars

\* The timerUpdates of c1 and c2 both listed c3 and got 410 for it; both
\* deletes succeeded, the later one on a key without an item; both have
\* returned 200 and c3 has no item in L1.
C20_Witness ==
    /\ AllSettled("c1") /\ AllSettled("c2")
    /\ statusCode["c1"] = 200 /\ statusCode["c2"] = 200
    /\ Removed("c1", "c3") /\ Removed("c2", "c3")
    /\ "c3" \in Members(connections["c1"]) \cap Members(connections["c2"])
    /\ Absent("L1", "c3")

\* The items of t that belong to league l, and those that do not.
InLeague(t, l) == {i \in t : i.leagueId = l}
OutOfLeague(t, l) == {i \in t : i.leagueId # l}

\* C21: the listing of a timerUpdate holds exactly the items the table has
\* for its league when the query returns, and every connection it posts to
\* has one of them; no step of the invocation changes an item of another
\* league; and a message reaches the inbox of a connection only through a
\* send of an invocation whose listing holds an item of that connection in
\* the league of the broadcast, so a connection that has items in other
\* leagues only gets none.
C21_LeaguesIsolated ==
    /\ [](\A c \in ConnectionIds, t \in ConnectionIds :
            /\ \A i \in connections[c] : i.leagueId = body[c].leagueId
            /\ (posts[c][t] > 0 \/ response[c][t] # "none") =>
                  \E i \in connections[c] :
                      KeyOf(i) = <<body[c].leagueId, t>>)
    /\ [][/\ \A c \in ConnectionIds :
              LET l == body'[c].leagueId IN
              /\ ListingStep(c) =>
                    /\ connections'[c] = InLeague(table, l)
                    /\ \A t \in ConnectionIds : posts'[c][t] > 0 =>
                          \E i \in table : KeyOf(i) = <<l, t>>
              /\ TimerUpdateStep(c) =>
                    OutOfLeague(table', l) = OutOfLeague(table, l)
         /\ \A t \in ConnectionIds : inbox'[t] # inbox[t] =>
              \E c \in ConnectionIds :
                  /\ handler[c] = "timerUpdate"
                  /\ response[c][t] = "none"
                  /\ response'[c][t] = "ok"
                  /\ \E i \in connections[c] :
                        KeyOf(i) = <<body[c].leagueId, t>>]_vars

\* c3 has joined L2 and has no item in L1; the timerUpdate of c1 in L1 has
\* returned 200 after it pruned c2: it listed and posted nothing for c3, the
\* item of c3 in L2 is as the join wrote it, and c3 has received nothing.
C21_Witness ==
    /\ Joined("c3")
    /\ body["c3"].leagueId = "L2"
    /\ handler["c1"] = "timerUpdate"
    /\ body["c1"].leagueId = "L1"
    /\ pc["c1"] = "done"
    /\ statusCode["c1"] = 200
    /\ Removed("c1", "c2")
    /\ posts["c1"]["c3"] = 0
    /\ inbox["c3"] = {}
    /\ table = {SeedCreator, JoinItem("c3", body["c3"])}

====
